---- MODULE Spec2Model ----
(***************************************************************************)
(* Model of the exchange-rates ingestion core (app/bq.py, app/main.py).    *)
(*                                                                         *)
(* Part 1: the staging-table upsert of app/bq.py.  The destination table   *)
(* ("rates") and the staging table ("rates_staging") are BigQuery tables:  *)
(* unordered multisets of rows with no uniqueness constraint, so both are  *)
(* modelled as bags.  Every storage call of upsert_exchange_rates is one   *)
(* step of the invoking process; a storage call may fail with an error of  *)
(* the storage layer, and the process may die between two calls.           *)
(*                                                                         *)
(* Part 2: the rate converter of app/converter.py, a pure function of one  *)
(* parsed API response.  Part 3: the retrying fetch of app/oxr.py, one     *)
(* step per HTTP request.  Part 4: the /ingest handler of app/main.py, one  *)
(* step per day of the window and one per storage call.                    *)
(***************************************************************************)
EXTENDS Integers, Sequences, FiniteSets, Bags, TLC

\* ------------------------------------------------------------------ bounds

\* longest batch handed to upsert_exchange_rates
MaxBatch == 2

\* ----------------------------------------------------------------- domains

\* invocations that may run against the same pair of tables
Procs == {1, 2}

\* the records a batch is built from: two observations of (day 1, USD) and one
\* of (day 1, GBP), so that a batch can update a key, repeat a key and leave a
\* key alone
Rows ==
    { [date |-> 1, currency |-> "USD", rate_to_eur |-> 115, timestamp |-> 10],
      [date |-> 1, currency |-> "USD", rate_to_eur |-> 120, timestamp |-> 20],
      [date |-> 1, currency |-> "GBP", rate_to_eur |-> 88, timestamp |-> 10] }

Batches == UNION { [1..n -> Rows] : n \in 0..MaxBatch }

\* error of the storage layer that can hit any storage call
StorageErrors == {"Forbidden"}

\* the storage calls ensure_staging_table can make
ApiCalls == {"get", "delete", "create", "fallback"}

VARIABLES
    mainTable,      \* destination table `rates`: bag of rows
    staging,        \* staging table: [exists, tsType, rows]
    projectId,      \* TRUE iff the PROJECT_ID environment variable is set
    pc,             \* pc[p]: position of invocation p
    batch,          \* batch[p]: the records argument of p's current call
    ops,            \* ops[p]: the calls p's current call made, with outcome
    err,            \* err[p]: the exception p's current call raised, or "none"
    destBefore,     \* destBefore[p]: mainTable when p's current call started
    repeat,         \* repeat[p]: the call repeats the previous, successful call
    staleAtStart,   \* staleAtStart[p]: staging held foreign rows at call start
    apiCalls,       \* apiCalls[p]: the calls p's ensure_staging_table made
    oxrData,        \* converter: the oxr_data argument of the current call
    convResult,     \* converter: what the current call returned or raised
    convPrev,       \* converter: case and error of the call before it
    fetchPc,        \* fetch: "idle", "loop", "returned" or "raised"
    maxRetries,     \* fetch: the max_retries argument
    appId,          \* fetch: TRUE iff an app id is given or in the environment
    attempts,       \* fetch: the outcome of each HTTP request made, in order
    sleeps,         \* fetch: the waits slept between attempts, in order
    lastException,  \* fetch: the local last_exception
    fetchResult,    \* fetch: the value returned or the error raised
    oxrAppId,       \* ingest: TRUE iff the OXR_APP_ID environment variable is set
    inPc,           \* ingest: position of the handler
    fetched,        \* ingest: what the request of each day came to, in order
    allRecords,     \* ingest: the local all_records
    inOps,          \* ingest: the storage calls made, with outcome
    response        \* ingest: the response returned

upsertVars == <<mainTable, staging, projectId, pc, batch, ops, err,
                destBefore, repeat, staleAtStart, apiCalls>>

convVars == <<oxrData, convResult, convPrev>>

fetchVars == <<fetchPc, maxRetries, appId, attempts, sleeps, lastException,
               fetchResult>>

ingestVars == <<oxrAppId, inPc, fetched, allRecords, inOps, response>>

vars == <<upsertVars, convVars, fetchVars, ingestVars>>

\* ----------------------------------------------------------------- helpers

RECURSIVE SumOver(_, _)
SumOver(S, f) ==
    IF S = {} THEN 0
    ELSE LET x == CHOOSE y \in S : TRUE
         IN  f[x] + SumOver(S \ {x}, f)

\* the rows of a list of records, as a table content
RECURSIVE BagOfSeq(_)
BagOfSeq(s) ==
    IF s = <<>> THEN EmptyBag
    ELSE SetToBag({Head(s)}) (+) BagOfSeq(Tail(s))

Key(r) == <<r.date, r.currency>>

KeysOf(b) == { Key(r) : r \in BagToSet(b) }

\* number of rows of table b stored under key k
RowsUnder(b, k) ==
    SumOver({ r \in BagToSet(b) : Key(r) = k }, [r \in BagToSet(b) |-> CopiesIn(r, b)])

UniqueKeys(b) == \A k \in KeysOf(b) : RowsUnder(b, k) = 1

NoTable == [exists |-> FALSE, tsType |-> "TIMESTAMP", rows |-> EmptyBag]

\* the schema ensure_staging_table declares; every column is REQUIRED
StagingSchema ==
    [date |-> "DATE", currency |-> "STRING", rate_to_eur |-> "FLOAT64",
     timestamp |-> "TIMESTAMP"]

\* the field_type get_table reports for a declared type: the standard SQL
\* name FLOAT64 is reported under its legacy name
FieldType(t) == IF t = "FLOAT64" THEN "FLOAT" ELSE t

\* the table ensure_staging_table creates
NewStagingTable ==
    [exists |-> TRUE, tsType |-> StagingSchema.timestamp, rows |-> EmptyBag]

\* the schema get_table reports for a staging table; the tables of the model
\* differ in the type of the timestamp column only
SchemaOf(tbl) ==
    [c \in DOMAIN StagingSchema |->
        IF c = "timestamp" THEN tbl.tsType ELSE FieldType(StagingSchema[c])]

\* ------------------------------------------------- storage layer (BigQuery)

\* variant: a join condition no pair of rows satisfies (a plain INSERT)
MergeOnNever(t, s) == t.date = s.timestamp /\ t.currency = s.currency

\* ON target.date = source.date AND target.currency = source.currency
MergeOn(t, s) == t.date = s.date /\ t.currency = s.currency

\* variant: the UPDATE forgets the timestamp column
WhenMatchedRateOnly(t, s) == [t EXCEPT !.rate_to_eur = s.rate_to_eur]

\* WHEN MATCHED THEN UPDATE SET rate_to_eur = ..., timestamp = ...
WhenMatched(t, s) ==
    [t EXCEPT !.rate_to_eur = s.rate_to_eur, !.timestamp = s.timestamp]

\* the source rows joined to target row t
Matching(t, src) == { s \in BagToSet(src) : MergeOn(t, s) }

MatchCount(t, src) ==
    SumOver(Matching(t, src), [s \in BagToSet(src) |-> CopiesIn(s, src)])

\* BigQuery refuses a MERGE in which a target row joins more than one source
\* row ("UPDATE/MERGE must match at most one source row for each target row")
MergeCardinalityError(dst, src) ==
    \E t \in BagToSet(dst) : MatchCount(t, src) > 1

Updated(t, src) ==
    IF Matching(t, src) = {} THEN t
    ELSE WhenMatched(t, CHOOSE s \in Matching(t, src) : TRUE)

\* WHEN NOT MATCHED THEN INSERT: every source row that joins no target row,
\* as often as the source holds it
WhenNotMatched(dst, src) ==
    { s \in BagToSet(src) : \A t \in BagToSet(dst) : ~MergeOn(t, s) }

\* variant: the destination is overwritten with the staging rows
MergeApplyReplace(dst, src) == src

\* the destination after a MERGE that ran to completion
MergeApply(dst, src) ==
    LET upd == { Updated(t, src) : t \in BagToSet(dst) }
        ins == WhenNotMatched(dst, src)
        copiesDst == [t \in BagToSet(dst) |-> CopiesIn(t, dst)]
    IN  [ r \in upd \cup ins |->
            SumOver({ t \in BagToSet(dst) : Updated(t, src) = r }, copiesDst)
            + (IF r \in ins THEN CopiesIn(r, src) ELSE 0) ]

\* variant: the rows are written one by one and the error comes after them
MergeFailedPartial(dst, src) == dst (+) src

\* the destination after a MERGE job that failed: a DML statement is atomic
MergeFailed(dst, src) == dst

\* merge_staging_to_main: one MERGE job; fault is the storage error that hits
\* the job, or "none"
MergeStagingToMain(dst, src, fault) ==
    IF fault # "none"
      THEN [ok |-> FALSE, cause |-> fault, table |-> MergeFailed(dst, src)]
    ELSE IF MergeCardinalityError(dst, src)
      THEN [ok |-> FALSE, cause |-> "BadRequest", table |-> MergeFailed(dst, src)]
    ELSE [ok |-> TRUE, cause |-> "none", table |-> MergeApply(dst, src)]

\* variant: the truncate is left out
TruncateNothing(rows) == rows

\* TRUNCATE TABLE staging
TruncateRows(rows) == EmptyBag

\* load job with write_disposition = WRITE_APPEND
LoadRows(rows, records) == rows (+) BagOfSeq(records)

\* create_table(table, exists_ok=True): a no-op on an existing table
FallbackCreate(tbl, f, e) ==
    IF f["fallback"]
      THEN [ok |-> TRUE, cause |-> "none",
            table |-> IF tbl.exists THEN tbl ELSE NewStagingTable]
      ELSE [ok |-> FALSE, cause |-> e, table |-> tbl]

\* variant: the table is dropped and created anew on every call
EnsureStagingTableRecreates(tbl, f, e) ==
    [ok |-> TRUE, cause |-> "none", table |-> NewStagingTable]

\* ensure_staging_table; f says which of its storage calls succeed, e is the
\* error of the one that fails
EnsureStagingTable(tbl, f, e) ==
    IF tbl.exists /\ f["get"]
      THEN IF tbl.tsType \in {"TIMESTAMP", "INTEGER"}
             THEN [ok |-> TRUE, cause |-> "none", table |-> tbl]
           ELSE IF ~f["delete"] THEN FallbackCreate(tbl, f, e)
           ELSE IF ~f["create"] THEN FallbackCreate(NoTable, f, e)
           ELSE [ok |-> TRUE, cause |-> "none", table |-> NewStagingTable]
      ELSE FallbackCreate(tbl, f, e)

\* the storage calls ensure_staging_table makes, in order, with the outcome of
\* each; get_table fails on a table that does not exist
EnsureCalls(tbl, f) ==
    LET Call(c, ok) == [call |-> c, ok |-> ok]
        Fallback == Call("fallback", f["fallback"])
    IN  IF tbl.exists /\ f["get"]
          THEN IF tbl.tsType \in {"TIMESTAMP", "INTEGER"}
                 THEN <<Call("get", TRUE)>>
               ELSE IF ~f["delete"]
                 THEN <<Call("get", TRUE), Call("delete", FALSE), Fallback>>
               ELSE IF ~f["create"]
                 THEN <<Call("get", TRUE), Call("delete", TRUE),
                        Call("create", FALSE), Fallback>>
               ELSE <<Call("get", TRUE), Call("delete", TRUE),
                      Call("create", TRUE)>>
          ELSE <<Call("get", FALSE), Fallback>>

\* ------------------------------------------------ upsert_exchange_rates

Terminal == {"idle", "returned", "raised", "crashed"}
InCall == {"ensure", "truncate", "load", "merge"}

Faults == {"none"} \cup StorageErrors

\* variant: the client is made without a look at PROJECT_ID, so that the call
\* goes on to the storage layer
UpsertEntryNoProjectCheck(records, pid) ==
    IF records = <<>>
      THEN [pc |-> "returned", ops |-> <<>>, err |-> "none"]
    ELSE [pc |-> "ensure",
          ops |-> <<[stage |-> "client", ok |-> TRUE, cause |-> "none"]>>,
          err |-> "none"]

\* variant: the client is created before the batch is looked at
UpsertEntryClientFirst(records, pid) ==
    IF ~pid
      THEN [pc |-> "raised",
            ops |-> <<[stage |-> "client", ok |-> FALSE, cause |-> "ValueError"]>>,
            err |-> "ValueError"]
    ELSE IF records = <<>>
      THEN [pc |-> "returned",
            ops |-> <<[stage |-> "client", ok |-> TRUE, cause |-> "none"]>>,
            err |-> "none"]
    ELSE [pc |-> "ensure",
          ops |-> <<[stage |-> "client", ok |-> TRUE, cause |-> "none"]>>,
          err |-> "none"]

\* `if not records: return` and then `client = get_client()`
UpsertEntry(records, pid) ==
    IF records = <<>>
      THEN [pc |-> "returned", ops |-> <<>>, err |-> "none"]
    ELSE IF ~pid
      THEN [pc |-> "raised",
            ops |-> <<[stage |-> "client", ok |-> FALSE, cause |-> "ValueError"]>>,
            err |-> "ValueError"]
    ELSE [pc |-> "ensure",
          ops |-> <<[stage |-> "client", ok |-> TRUE, cause |-> "none"]>>,
          err |-> "none"]

\* variant: a stage that failed is issued again
AfterStageRetries(stage, ok) ==
    IF ~ok THEN stage
    ELSE CASE stage = "ensure"   -> "truncate"
           [] stage = "truncate" -> "load"
           [] stage = "load"     -> "merge"
           [] stage = "merge"    -> "returned"

\* variant: a failed load is logged and the merge runs all the same
AfterStageLoadSwallowed(stage, ok) ==
    IF ~ok /\ stage # "load" THEN "raised"
    ELSE CASE stage = "ensure"   -> "truncate"
           [] stage = "truncate" -> "load"
           [] stage = "load"     -> "merge"
           [] stage = "merge"    -> "returned"

\* the try block: the statement that follows a stage, or the except clause
AfterStage(stage, ok) ==
    IF ~ok THEN "raised"
    ELSE CASE stage = "ensure"   -> "truncate"
           [] stage = "truncate" -> "load"
           [] stage = "load"     -> "merge"
           [] stage = "merge"    -> "returned"

\* the error types a stage-wrapping coordinator would raise
StageError(stage) ==
    CASE stage = "ensure"   -> "TableProvisionError"
      [] stage = "truncate" -> "TruncateError"
      [] stage = "load"     -> "LoadError"
      [] stage = "merge"    -> "MergeError"
      [] OTHER              -> "ValueError"

\* variant: the except clause wraps the error in the error type of the stage
SurfaceWrapped(stage, cause) == StageError(stage)

\* `except Exception as e: logger.error(...); raise`
Surface(stage, cause) == cause

\* variant: a lock held from the truncate to the end of the merge
MayProceedLocked(p) == \A q \in Procs \ {p} : pc[q] \notin {"load", "merge"}

\* what an invocation waits for before a storage call: the code takes no lock
MayProceed(p) == TRUE

\* bookkeeping of one finished storage call of p
Step(p, stage, ok, cause) ==
    /\ pc' = [pc EXCEPT ![p] = AfterStage(stage, ok)]
    /\ ops' = [ops EXCEPT ![p] =
                  Append(@, [stage |-> stage, ok |-> ok, cause |-> cause])]
    /\ err' = [err EXCEPT ![p] = IF ok THEN "none" ELSE Surface(stage, cause)]
    /\ UNCHANGED <<projectId, batch, destBefore, repeat, staleAtStart>>
    /\ UNCHANGED <<convVars, fetchVars, ingestVars>>

Invoke(p) ==
    /\ pc[p] \in Terminal
    /\ \E b \in Batches :
        LET e == UpsertEntry(b, projectId)
        IN  /\ pc' = [pc EXCEPT ![p] = e.pc]
            /\ ops' = [ops EXCEPT ![p] = e.ops]
            /\ err' = [err EXCEPT ![p] = e.err]
            /\ batch' = [batch EXCEPT ![p] = b]
            /\ destBefore' = [destBefore EXCEPT ![p] = mainTable]
            /\ repeat' = [repeat EXCEPT ![p] = pc[p] = "returned" /\ b = batch[p]]
            /\ staleAtStart' = [staleAtStart EXCEPT ![p] =
                    \E r \in BagToSet(staging.rows) :
                        \A i \in 1..Len(b) : b[i] # r]
            /\ apiCalls' = [apiCalls EXCEPT ![p] = <<>>]
    /\ UNCHANGED <<mainTable, staging, projectId>>
    /\ UNCHANGED <<convVars, fetchVars, ingestVars>>

Ensure(p) ==
    /\ pc[p] = "ensure"
    /\ MayProceed(p)
    /\ \E f \in [ApiCalls -> BOOLEAN], e \in StorageErrors :
        LET r == EnsureStagingTable(staging, f, e)
        IN  /\ staging' = r.table
            /\ apiCalls' = [apiCalls EXCEPT ![p] = EnsureCalls(staging, f)]
            /\ Step(p, "ensure", r.ok, r.cause)
    /\ UNCHANGED mainTable

Truncate(p) ==
    /\ pc[p] = "truncate"
    /\ MayProceed(p)
    /\ \E fault \in Faults :
        IF fault = "none" /\ staging.exists
          THEN /\ staging' = [staging EXCEPT !.rows = TruncateRows(@)]
               /\ Step(p, "truncate", TRUE, "none")
          ELSE /\ UNCHANGED staging
               /\ Step(p, "truncate", FALSE,
                       IF fault = "none" THEN "NotFound" ELSE fault)
    /\ UNCHANGED <<mainTable, apiCalls>>

Load(p) ==
    /\ pc[p] = "load"
    /\ MayProceed(p)
    /\ \E fault \in Faults :
        IF fault = "none" /\ staging.exists
          THEN /\ staging' = [staging EXCEPT !.rows = LoadRows(@, batch[p])]
               /\ Step(p, "load", TRUE, "none")
          ELSE /\ UNCHANGED staging
               /\ Step(p, "load", FALSE,
                       IF fault = "none" THEN "NotFound" ELSE fault)
    /\ UNCHANGED <<mainTable, apiCalls>>

Merge(p) ==
    /\ pc[p] = "merge"
    /\ MayProceed(p)
    /\ \E fault \in Faults :
        LET r == MergeStagingToMain(mainTable, staging.rows,
                                    IF fault = "none" /\ ~staging.exists
                                      THEN "NotFound" ELSE fault)
        IN  /\ mainTable' = r.table
            /\ Step(p, "merge", r.ok, r.cause)
    /\ UNCHANGED <<staging, apiCalls>>

\* the process dies between two storage calls: nothing is raised or undone,
\* and the locals of the call are gone
Crash(p) ==
    /\ pc[p] \in InCall
    /\ pc' = [pc EXCEPT ![p] = "crashed"]
    /\ batch' = [batch EXCEPT ![p] = <<>>]
    /\ ops' = [ops EXCEPT ![p] = <<>>]
    /\ destBefore' = [destBefore EXCEPT ![p] = EmptyBag]
    /\ repeat' = [repeat EXCEPT ![p] = FALSE]
    /\ staleAtStart' = [staleAtStart EXCEPT ![p] = FALSE]
    /\ apiCalls' = [apiCalls EXCEPT ![p] = <<>>]
    /\ UNCHANGED <<mainTable, staging, projectId, err>>
    /\ UNCHANGED <<convVars, fetchVars, ingestVars>>


(***************************************************************************)
(* Part 2.  convert_usd_to_eur_base (app/converter.py).                    *)
(*                                                                         *)
(* A JSON value is a record [t, v]: t is its Python type as the function   *)
(* can tell it apart ("none", "str", "dict", or a number: "num" finite,    *)
(* "nan", "inf", "ninf"), v the finite number in hundredths (92 is 0.92).  *)
(* A float the function produces is [t, num, den], the exact quotient      *)
(* num/den in lowest terms.                                                *)
(***************************************************************************)
Codes == {"EUR", "USD", "GBP"}

Num(n) == [t |-> "num", v |-> n]

NonNum(t) == [t |-> t, v |-> 0]

JsonValues ==
    { NonNum("none"), NonNum("str"), NonNum("dict"),
      NonNum("nan"), NonNum("inf"), NonNum("ninf"),
      Num(-50), Num(0), Num(92), Num(100) }

\* the rates objects: EUR and USD take every value, GBP is absent or 0.81
RatesObjects ==
    { r \in UNION { [D -> JsonValues \cup {Num(81)}] : D \in SUBSET Codes } :
        /\ \A c \in DOMAIN r \ {"GBP"} : r[c] \in JsonValues
        /\ "GBP" \in DOMAIN r => r["GBP"] = Num(81) }

NoRatesKey == [hasRates |-> FALSE, isDict |-> FALSE, rates |-> <<>>]

RatesNotDict == [hasRates |-> TRUE, isDict |-> FALSE, rates |-> <<>>]

OxrResponses ==
    {NoRatesKey, RatesNotDict}
        \cup { [hasRates |-> TRUE, isDict |-> TRUE, rates |-> r] :
                 r \in RatesObjects }

RECURSIVE Gcd(_, _)
Gcd(a, b) == IF b = 0 THEN a ELSE Gcd(b, a % b)

\* the float n/d, n >= 0 and d > 0
Quotient(n, d) ==
    [t |-> "num", num |-> n \div Gcd(n, d), den |-> d \div Gcd(n, d)]

\* the literal 1.0
One == [t |-> "num", num |-> 1, den |-> 1]

NaN == [t |-> "nan", num |-> 0, den |-> 1]

\* isinstance(x, (int, float))
IsNumber(x) == x.t \in {"num", "nan", "inf", "ninf"}

\* x <= 0 for a number x: every comparison with NaN is false
LeqZero(x) ==
    CASE x.t = "num"  -> x.v <= 0
      [] x.t = "ninf" -> TRUE
      [] OTHER        -> FALSE

Returned(m) == [status |-> "returned", kind |-> "none", msg |-> "", rates |-> m]

Raised(kind, msg) ==
    [status |-> "raised", kind |-> kind, msg |-> msg, rates |-> <<>>]

EurNotFound == "EUR rate not found in API response"

ReturnEmptyMapping == Returned(<<>>)

\* if not usd_rates: raise ValueError
RaiseEmptyRates == Raised("ValueError", EurNotFound)

RaiseMissingEurAsKeyError == Raised("KeyError", EurNotFound)

\* if "EUR" not in usd_rates: raise ValueError
RaiseMissingEur == Raised("ValueError", EurNotFound)

\* the EUR check: `usd_to_eur <= 0` raises TypeError on a value that is not a
\* number, ValueError on a number that compares <= 0, and lets the rest pass
EurCheck(k) ==
    IF ~IsNumber(k)
    THEN Raised("TypeError", "'<=' not supported")
    ELSE IF LeqZero(k)
         THEN Raised("ValueError", "EUR rate must be greater than zero")
         ELSE Returned(<<>>)

SkippedNegativeOnly(x) ==
    \/ x.t = "none"
    \/ ~IsNumber(x)
    \/ x.t \in {"nan", "inf", "ninf"}
    \/ x.v < 0

\* the four `continue` tests of the loop, in the code's order
Skipped(x) ==
    \/ x.t = "none"
    \/ ~IsNumber(x)
    \/ x.t \in {"nan", "inf", "ninf"}
    \/ x.v <= 0

RebaseMultiplied(x, k) == Quotient(x.v * k.v, 100 * 100)

\* usd_rate / usd_to_eur, for a positive finite usd_rate
Rebase(x, k) ==
    CASE k.t = "num" -> Quotient(x.v, k.v)
      [] k.t = "inf" -> Quotient(0, 1)
      [] OTHER       -> NaN

ConvertEntryEurKept(c, x, k) ==
    IF c = "EUR" THEN Quotient(x.v, 100) ELSE Rebase(x, k)

\* the if/else that fills eur_rates[currency]
ConvertEntry(c, x, k) == IF c = "EUR" THEN One ELSE Rebase(x, k)

ConvertUsdToEurBase(d) ==
    IF ~d.hasRates
    THEN Raised("KeyError", "Missing 'rates' key in API response")
    ELSE IF ~d.isDict
    THEN Raised("TypeError", "rates must be a dictionary")
    ELSE IF DOMAIN d.rates = {}
    THEN RaiseEmptyRates
    ELSE IF "EUR" \notin DOMAIN d.rates
    THEN RaiseMissingEur
    ELSE LET usd_to_eur == d.rates["EUR"]
         IN  IF EurCheck(usd_to_eur).status = "raised"
             THEN EurCheck(usd_to_eur)
             ELSE Returned([c \in {x \in DOMAIN d.rates : ~Skipped(d.rates[x])}
                               |-> ConvertEntry(c, d.rates[c], usd_to_eur)])

\* which of the function's input cases a response falls under
InputCase(d) ==
    CASE ~d.hasRates                 -> "no_rates_key"
      [] d.hasRates /\ ~d.isDict     -> "rates_not_dict"
      [] d.isDict /\ DOMAIN d.rates = {} -> "empty_rates"
      [] d.isDict /\ DOMAIN d.rates # {} /\ "EUR" \notin DOMAIN d.rates
                                     -> "missing_eur"
      [] OTHER                       -> "has_eur"

NotCalled == [status |-> "none", kind |-> "none", msg |-> "", rates |-> <<>>]

NoPrev ==
    [case |-> "none", nonPositive |-> FALSE,
     status |-> "none", kind |-> "none", msg |-> ""]

\* EUR is present and is a number that is zero or negative
NonPositiveEur(d) ==
    /\ InputCase(d) = "has_eur"
    /\ d.rates["EUR"].t = "num"
    /\ d.rates["EUR"].v <= 0

ConvIdle ==
    /\ oxrData = NoRatesKey
    /\ convResult = NotCalled
    /\ convPrev = NoPrev

\* one call of convert_usd_to_eur_base on any parsed response
Convert ==
    /\ \E d \in OxrResponses :
        /\ oxrData' = d
        /\ convResult' = ConvertUsdToEurBase(d)
    /\ convPrev' = IF convResult.status = "none"
                   THEN NoPrev
                   ELSE [case |-> InputCase(oxrData),
                         nonPositive |-> NonPositiveEur(oxrData),
                         status |-> convResult.status,
                         kind |-> convResult.kind,
                         msg |-> convResult.msg]
    /\ UNCHANGED <<upsertVars, fetchVars, ingestVars>>

(***************************************************************************)
(* Part 3.  fetch_historical_rates (app/oxr.py).                           *)
(*                                                                         *)
(* One step per HTTP request.  What a request comes to is drawn from       *)
(* Outcomes: a response with a status (and, for a 200, a body that parses  *)
(* or does not), a timeout, or another request failure.                    *)
(***************************************************************************)
MaxRetriesArg == 3

DefaultMaxRetries == 3

HttpErrorStatuses == {401, 404, 429, 500, 503}

Bodies == {"rates_a", "rates_b"}

Outcomes ==
    { [kind |-> "ok", status |-> 200, body |-> b] : b \in Bodies }
        \cup { [kind |-> "http_error", status |-> s, body |-> "none"] :
                 s \in HttpErrorStatuses }
        \cup { [kind |-> k, status |-> 0, body |-> "none"] :
                 k \in {"timeout", "connection"} }
        \cup { [kind |-> "bad_json", status |-> 200, body |-> "none"] }

\* an exception object: its class, the attempt that raised it, the status
Exception(type, n, status) == [type |-> type, attempt |-> n, status |-> status]

NoException == Exception("none", 0, 0)

\* what requests.get / raise_for_status / json raise on an outcome; the error
\* of json() is taken as a ValueError that is no RequestException, the way
\* the tests of fetch_historical_rates raise it
ExceptionOf(o, n) ==
    CASE o.kind = "http_error" -> Exception("HTTPError", n, o.status)
      [] o.kind = "timeout"    -> Exception("Timeout", n, 0)
      [] o.kind = "connection" -> Exception("RequestException", n, 0)
      [] o.kind = "bad_json"   -> Exception("ValueError", n, 0)
      [] OTHER                 -> NoException

FetchReturnedUnlessFailedBefore(b) ==
    IF lastException = NoException
    THEN [status |-> "returned", body |-> b, exc |-> NoException]
    ELSE [status |-> "raised", body |-> "none", exc |-> lastException]

FetchReturned(b) == [status |-> "returned", body |-> b, exc |-> NoException]

FetchRaised(e) == [status |-> "raised", body |-> "none", exc |-> e]

FetchPending == [status |-> "none", body |-> "none", exc |-> NoException]

IsClientErrorNever(status) == FALSE

IsClientErrorExcept429(status) == 400 <= status /\ status < 500 /\ status # 429

\* if 400 <= e.response.status_code < 500: raise
IsClientError(status) == 400 <= status /\ status < 500

InRangeOneExtra(n, max) == 1 <= n /\ n <= max + 1

\* attempt n is an iteration of: for attempt in range(1, max_retries + 1)
InRange(n, max) == 1 <= n /\ n <= max

SleepsAfterEvery(n, max) == n <= max

\* if attempt < max_retries: time.sleep(wait_time)
SleepsAfter(n, max) == n < max

\* wait_time = 2 ** attempt
Backoff(n) == 2 ^ n

ExhaustedReturnsNone(last) == FetchReturned("none")

\* after the loop: raise last_exception; raising None is a TypeError
Exhausted(last) ==
    IF last = NoException
    THEN FetchRaised(Exception("TypeError", 0, 0))
    ELSE FetchRaised(last)

FetchDone(r) ==
    /\ fetchResult' = r
    /\ fetchPc' = r.status

\* variant: the call goes into the loop without a look at the app id
FetchCallNoAppIdCheck ==
    /\ fetchPc = "idle"
    /\ IF InRange(1, maxRetries)
       THEN fetchPc' = "loop" /\ fetchResult' = fetchResult
       ELSE FetchDone(Exhausted(lastException))
    /\ UNCHANGED <<maxRetries, appId, attempts, sleeps, lastException>>
    /\ UNCHANGED <<upsertVars, convVars, ingestVars>>

\* entry of the call: the app id check, then the loop header
FetchCall ==
    /\ fetchPc = "idle"
    /\ IF ~appId
       THEN FetchDone(FetchRaised(Exception("ValueError", 0, 0)))
       ELSE IF InRange(1, maxRetries)
            THEN fetchPc' = "loop" /\ fetchResult' = fetchResult
            ELSE FetchDone(Exhausted(lastException))
    /\ UNCHANGED <<maxRetries, appId, attempts, sleeps, lastException>>
    /\ UNCHANGED <<upsertVars, convVars, ingestVars>>

\* variant: the error of json() is a RequestException (as the JSONDecodeError
\* of requests 2.27 and later is), so that the last handler retries it
FetchAttemptRetriesBadJson ==
    /\ fetchPc = "loop"
    /\ \E o \in Outcomes :
        LET n == Len(attempts) + 1
            e == ExceptionOf(o, n)
        IN  /\ attempts' = Append(attempts, o)
            /\ CASE o.kind = "ok" ->
                    /\ FetchDone(FetchReturned(o.body))
                    /\ UNCHANGED <<lastException, sleeps>>
                 [] o.kind = "http_error" /\ IsClientError(o.status) ->
                    /\ lastException' = e
                    /\ FetchDone(FetchRaised(e))
                    /\ UNCHANGED sleeps
                 [] OTHER ->
                    /\ lastException' = e
                    /\ sleeps' = IF SleepsAfter(n, maxRetries)
                                 THEN Append(sleeps, Backoff(n))
                                 ELSE sleeps
                    /\ IF InRange(n + 1, maxRetries)
                       THEN UNCHANGED <<fetchPc, fetchResult>>
                       ELSE FetchDone(Exhausted(e))
    /\ UNCHANGED <<maxRetries, appId>>
    /\ UNCHANGED <<upsertVars, convVars, ingestVars>>

\* one iteration of the loop: the request, and what the handlers do with it
FetchAttempt ==
    /\ fetchPc = "loop"
    /\ \E o \in Outcomes :
        LET n == Len(attempts) + 1
            e == ExceptionOf(o, n)
        IN  /\ attempts' = Append(attempts, o)
            /\ CASE o.kind = "ok" ->
                    /\ FetchDone(FetchReturned(o.body))
                    /\ UNCHANGED <<lastException, sleeps>>
                 [] o.kind = "bad_json" ->
                    /\ FetchDone(FetchRaised(e))
                    /\ UNCHANGED <<lastException, sleeps>>
                 [] o.kind = "http_error" /\ IsClientError(o.status) ->
                    /\ lastException' = e
                    /\ FetchDone(FetchRaised(e))
                    /\ UNCHANGED sleeps
                 [] OTHER ->
                    /\ lastException' = e
                    /\ sleeps' = IF SleepsAfter(n, maxRetries)
                                 THEN Append(sleeps, Backoff(n))
                                 ELSE sleeps
                    /\ IF InRange(n + 1, maxRetries)
                       THEN UNCHANGED <<fetchPc, fetchResult>>
                       ELSE FetchDone(Exhausted(e))
    /\ UNCHANGED <<maxRetries, appId>>
    /\ UNCHANGED <<upsertVars, convVars, ingestVars>>

FetchIdle ==
    /\ fetchPc = "idle"
    /\ maxRetries = DefaultMaxRetries
    /\ appId = TRUE
    /\ attempts = <<>>
    /\ sleeps = <<>>
    /\ lastException = NoException
    /\ fetchResult = FetchPending

(***************************************************************************)
(* Part 4.  The /ingest handler and its helpers (app/main.py).             *)
(*                                                                         *)
(* The handler has its own fetch (one request, None on failure) and its    *)
(* own conversion, transform_to_eur_base; it does its own load and merge   *)
(* against the same two tables.  A date is the number of days from today   *)
(* (0 today, -1 yesterday).  Floats are [t, num, den] as in part 2, now    *)
(* with a sign and with the infinities.                                    *)
(***************************************************************************)
\* days of the window; the code's LOOKBACK_DAYS is 30
LookbackDays == 2

TrackedCurrencies == <<"USD", "GBP", "JPY", "CHF">>

Inf == [t |-> "inf", num |-> 0, den |-> 1]

NegInf == [t |-> "ninf", num |-> 0, den |-> 1]

\* the float of a JSON number
FloatOf(x) ==
    CASE x.t = "num"  -> Quotient(x.v, 100)
      [] x.t = "inf"  -> Inf
      [] x.t = "ninf" -> NegInf
      [] OTHER        -> NaN

FloatSign(a) ==
    CASE a.t = "inf"  -> 1
      [] a.t = "ninf" -> -1
      [] a.t = "num"  -> IF a.num > 0 THEN 1 ELSE IF a.num < 0 THEN -1 ELSE 0
      [] OTHER        -> 0

\* 1 / a, for a # 0
Reciprocal(a) ==
    CASE a.t = "num" -> IF a.num > 0 THEN Quotient(a.den, a.num)
                        ELSE Quotient(0 - a.den, 0 - a.num)
      [] a.t = "nan" -> NaN
      [] OTHER       -> Quotient(0, 1)

\* a * b
FloatMul(a, b) ==
    IF a.t = "nan" \/ b.t = "nan" THEN NaN
    ELSE IF a.t = "num" /\ b.t = "num"
         THEN Quotient(a.num * b.num, a.den * b.den)
    ELSE IF FloatSign(a) * FloatSign(b) = 0 THEN NaN
    ELSE IF FloatSign(a) * FloatSign(b) > 0 THEN Inf
    ELSE NegInf

\* a parsed response body: timestamp is the unix time, 0 when it is absent
Body(ts, r) == [hasRates |-> TRUE, isDict |-> TRUE, rates |-> r, timestamp |-> ts]

NoBody == [hasRates |-> FALSE, isDict |-> FALSE, rates |-> <<>>, timestamp |-> 0]

\* the bodies a day's request can return
IngestBodies ==
    { Body(10, ("EUR" :> Num(92)) @@ ("USD" :> Num(100)) @@ ("GBP" :> Num(81))
                 @@ ("JPY" :> Num(14950)) @@ ("CHF" :> Num(88))),
      Body(20, ("EUR" :> Num(92)) @@ ("USD" :> Num(100))),
      Body(0,  ("EUR" :> Num(100)) @@ ("GBP" :> Num(81))),
      Body(10, ("USD" :> Num(100)) @@ ("GBP" :> Num(81))),
      Body(10, ("EUR" :> Num(92)) @@ ("USD" :> Num(100)) @@ ("GBP" :> NonNum("none"))),
      Body(10, ("EUR" :> Num(92)) @@ ("USD" :> NonNum("str")) @@ ("GBP" :> Num(81))),
      Body(10, ("EUR" :> Num(92)) @@ ("USD" :> Num(-50))),
      Body(10, ("EUR" :> Num(92)) @@ ("GBP" :> Num(0))),
      Body(10, ("EUR" :> Num(0)) @@ ("USD" :> Num(100))),
      Body(10, ("EUR" :> Num(-50)) @@ ("USD" :> Num(100))),
      Body(10, ("EUR" :> NonNum("nan")) @@ ("USD" :> Num(100))),
      Body(10, ("EUR" :> NonNum("none")) @@ ("USD" :> Num(100))),
      Body(10, ("EUR" :> NonNum("str")) @@ ("USD" :> Num(100))),
      [hasRates |-> TRUE, isDict |-> FALSE, rates |-> <<>>, timestamp |-> 10],
      [hasRates |-> FALSE, isDict |-> FALSE, rates |-> <<>>, timestamp |-> 10] }

\* what the request of one day can come to; a body that cannot be decoded
\* counts as a failed request here, json() of requests raising a
\* JSONDecodeError that is a RequestException
DayOutcomes ==
    { [kind |-> "ok", status |-> 200, body |-> b] : b \in IngestBodies }
        \cup { [kind |-> o.kind, status |-> o.status, body |-> NoBody] :
                 o \in { x \in Outcomes : x.kind # "ok" } }

\* convert_unix_to_iso: the given time, or the clock's when none is given
ConvertUnixToIso(ts) ==
    IF ts # 0 THEN [utc |-> ts, clock |-> FALSE] ELSE [utc |-> 0, clock |-> TRUE]

\* variant: only connection errors are caught, the HTTPError of
\* raise_for_status leaves the function
MainFetchRaisesOnHttpError(o) ==
    IF o.kind = "ok"
    THEN [status |-> "returned", none |-> FALSE, body |-> o.body]
    ELSE IF o.kind = "http_error"
    THEN [status |-> "raised", none |-> TRUE, body |-> NoBody]
    ELSE [status |-> "returned", none |-> TRUE, body |-> NoBody]

MainFetchPropagates(o) ==
    IF o.kind = "ok"
    THEN [status |-> "returned", none |-> FALSE, body |-> o.body]
    ELSE [status |-> "raised", none |-> TRUE, body |-> NoBody]

\* main.fetch_historical_rates: the parsed body, or None on a request error
MainFetch(o) ==
    IF o.kind = "ok"
    THEN [status |-> "returned", none |-> FALSE, body |-> o.body]
    ELSE [status |-> "returned", none |-> TRUE, body |-> NoBody]

\* `not x` for a JSON value
Falsy(x) == x.t = "none" \/ (x.t = "num" /\ x.v = 0)

TransformReturned(records) ==
    [status |-> "returned", kind |-> "none", records |-> records]

TransformRaised(kind) ==
    [status |-> "raised", kind |-> kind, records |-> <<>>]

CurrenciesToEmitWithBase(rates) ==
    <<"EUR">> \o SelectSeq(TrackedCurrencies, LAMBDA c : c \in DOMAIN rates)

\* for currency in TRACKED_CURRENCIES: if currency in rates
CurrenciesToEmit(rates) ==
    SelectSeq(TrackedCurrencies, LAMBDA c : c \in DOMAIN rates)

TransformToEurBase(raw_data, target_date) ==
    IF raw_data.hasRates /\ ~raw_data.isDict
    THEN TransformRaised("AttributeError")
    ELSE LET rates == IF raw_data.hasRates THEN raw_data.rates ELSE <<>>
         IN  IF "EUR" \notin DOMAIN rates \/ Falsy(rates["EUR"])
             THEN TransformReturned(<<>>)
             ELSE IF ~IsNumber(rates["EUR"])
             THEN TransformRaised("TypeError")
             ELSE LET usd_to_eur == Reciprocal(FloatOf(rates["EUR"]))
                      timestamp == ConvertUnixToIso(raw_data.timestamp)
                      emit == CurrenciesToEmit(rates)
                  IN  IF \E i \in 1..Len(emit) : ~IsNumber(rates[emit[i]])
                      THEN TransformRaised("TypeError")
                      ELSE TransformReturned(
                             [i \in 1..Len(emit) |->
                                [date |-> target_date,
                                 currency |-> emit[i],
                                 rate_to_eur |->
                                     FloatMul(FloatOf(rates[emit[i]]), usd_to_eur),
                                 timestamp |-> timestamp]])

\* variant: every iteration asks for today's rates
DateOfToday(i) == 0

\* current_date = end_date - timedelta(days=i)
DateOf(i) == 0 - i

NoResponse == [code |-> 0, status |-> "none", records |-> 0, message |-> ""]

ErrorResponse(code, message) ==
    [code |-> code, status |-> "error", records |-> 0, message |-> message]

SuccessResponsePartial(n) ==
    [code |-> 200,
     status |-> IF \E i \in 1..Len(fetched) : fetched[i].kind # "ok"
                THEN "partial" ELSE "success",
     records |-> n, message |-> ""]

\* return {"status": "success", "records": len(all_records)}
SuccessResponse(n) ==
    [code |-> 200, status |-> "success", records |-> n, message |-> ""]

\* the response of `except Exception as e`; the message names the error e
PipelineError(e) == ErrorResponse(500, e)

EnvOkProjectOnly(project, key) == project

\* if not project_id or not api_key
EnvOk(project, key) == project /\ key

Respond(r) ==
    /\ response' = r
    /\ inPc' = "done"

\* entry of the handler: the environment check
IngestStart ==
    /\ inPc = "idle"
    /\ IF EnvOk(projectId, oxrAppId)
       THEN inPc' = "fetch" /\ response' = response
       ELSE Respond(ErrorResponse(500, "Missing required environment variables"))
    /\ UNCHANGED <<oxrAppId, fetched, allRecords, inOps>>
    /\ UNCHANGED <<upsertVars, convVars, fetchVars>>

AfterLoopClientFirst(records) ==
    IF records = <<>>
    THEN [pc |-> "done", ops |-> <<[call |-> "client", ok |-> TRUE]>>,
          response |-> ErrorResponse(400, "No records fetched from API")]
    ELSE [pc |-> "client", ops |-> <<>>, response |-> NoResponse]

\* `if not all_records: return 400`, else on to the storage phase
AfterLoop(records) ==
    IF records = <<>>
    THEN [pc |-> "done", ops |-> <<>>,
          response |-> ErrorResponse(400, "No records fetched from API")]
    ELSE [pc |-> "client", ops |-> <<>>, response |-> NoResponse]

\* one iteration of the window loop: fetch, skip or transform, extend; after
\* the last iteration, the test of the accumulated batch
IngestDay ==
    /\ inPc = "fetch"
    /\ Len(fetched) < LookbackDays
    /\ \E o \in DayOutcomes :
        LET i == Len(fetched)
            api_data == MainFetch(o)
            t == TransformToEurBase(api_data.body, DateOf(i))
            all == IF api_data.none THEN allRecords ELSE allRecords \o t.records
            next == AfterLoop(all)
        IN  /\ fetched' = Append(fetched, o)
            /\ IF api_data.status = "raised"
               THEN /\ Respond(PipelineError("fetch"))
                    /\ UNCHANGED <<allRecords, inOps>>
               ELSE IF ~api_data.none /\ t.status = "raised"
               THEN /\ Respond(PipelineError(t.kind))
                    /\ UNCHANGED <<allRecords, inOps>>
               ELSE /\ allRecords' = all
                    /\ IF i + 1 < LookbackDays
                       THEN UNCHANGED <<inPc, response, inOps>>
                       ELSE /\ inPc' = next.pc
                            /\ response' = next.response
                            /\ inOps' = inOps \o next.ops
    /\ UNCHANGED oxrAppId
    /\ UNCHANGED <<upsertVars, convVars, fetchVars>>

\* variant: the error of a storage call is logged and the handler goes on to
\* the next statement
StorageCallSwallowed(call, ok, nextPc) ==
    /\ inOps' = Append(inOps, [call |-> call, ok |-> ok])
    /\ inPc' = nextPc /\ response' = response
    /\ UNCHANGED <<oxrAppId, fetched, allRecords>>
    /\ UNCHANGED <<projectId, pc, batch, ops, err, destBefore, repeat,
                   staleAtStart, apiCalls>>
    /\ UNCHANGED <<convVars, fetchVars>>

\* variant: the storage phase has no `except Exception`, the error of a
\* storage call leaves the handler and no response is made
StorageCallEscapes(call, ok, nextPc) ==
    /\ inOps' = Append(inOps, [call |-> call, ok |-> ok])
    /\ inPc' = IF ok THEN nextPc ELSE "escaped"
    /\ response' = response
    /\ UNCHANGED <<oxrAppId, fetched, allRecords>>
    /\ UNCHANGED <<projectId, pc, batch, ops, err, destBefore, repeat,
                   staleAtStart, apiCalls>>
    /\ UNCHANGED <<convVars, fetchVars>>

\* bookkeeping of one storage call of the handler: on to the next statement,
\* or into `except Exception`, which answers 500
StorageCall(call, ok, nextPc) ==
    /\ inOps' = Append(inOps, [call |-> call, ok |-> ok])
    /\ IF ok
       THEN inPc' = nextPc /\ response' = response
       ELSE Respond(PipelineError(call))
    /\ UNCHANGED <<oxrAppId, fetched, allRecords>>
    /\ UNCHANGED <<projectId, pc, batch, ops, err, destBefore, repeat,
                   staleAtStart, apiCalls>>
    /\ UNCHANGED <<convVars, fetchVars>>

\* client = bigquery.Client(project=project_id)
IngestClient ==
    /\ inPc = "client"
    /\ \E fault \in Faults : StorageCall("client", fault = "none", "ensure")
    /\ UNCHANGED <<mainTable, staging>>

\* ensure_staging_table_exists (main.py), when get_table answers
IngestEnsure ==
    /\ inPc = "ensure"
    /\ \E fault \in Faults :
        IF staging.exists \/ fault # "none"
        THEN /\ StorageCall("get_table", fault = "none", "load")
             /\ UNCHANGED staging
        ELSE /\ StorageCall("create_table", TRUE, "load")
             /\ staging' = NewStagingTable
    /\ UNCHANGED mainTable

\* ensure_staging_table_exists, when get_table says NotFound and create_table
\* fails
IngestEnsureCreateFails ==
    /\ inPc = "ensure"
    /\ ~staging.exists
    /\ StorageCall("create_table", FALSE, "load")
    /\ UNCHANGED <<mainTable, staging>>

\* the load job, with write_disposition = WRITE_TRUNCATE
IngestLoad ==
    /\ inPc = "load"
    /\ \E fault \in Faults :
        /\ StorageCall("load", fault = "none", "merge")
        /\ staging' = IF fault = "none"
                      THEN [staging EXCEPT !.rows = BagOfSeq(allRecords)]
                      ELSE staging
    /\ UNCHANGED mainTable

\* the MERGE job and the success response
IngestMerge ==
    /\ inPc = "merge"
    /\ \E fault \in Faults :
        LET r == MergeStagingToMain(mainTable, staging.rows, fault)
        IN  /\ mainTable' = r.table
            /\ inOps' = Append(inOps, [call |-> "merge", ok |-> r.ok])
            /\ Respond(IF r.ok THEN SuccessResponse(Len(allRecords))
                       ELSE PipelineError("merge"))
    /\ UNCHANGED <<oxrAppId, fetched, allRecords>>
    /\ UNCHANGED <<staging, projectId, pc, batch, ops, err, destBefore, repeat,
                   staleAtStart, apiCalls>>
    /\ UNCHANGED <<convVars, fetchVars>>

IngestIdle ==
    /\ oxrAppId = TRUE
    /\ inPc = "idle"
    /\ fetched = <<>>
    /\ allRecords = <<>>
    /\ inOps = <<>>
    /\ response = NoResponse

\* a staging table left by an earlier deployment, with a STRING timestamp
LegacyStagingTable == [exists |-> TRUE, tsType |-> "STRING", rows |-> EmptyBag]

UpsertInit ==
    /\ mainTable = EmptyBag
    /\ staging \in {NoTable, LegacyStagingTable}
    /\ projectId \in BOOLEAN
    /\ pc = [p \in Procs |-> "idle"]
    /\ batch = [p \in Procs |-> <<>>]
    /\ ops = [p \in Procs |-> <<>>]
    /\ err = [p \in Procs |-> "none"]
    /\ destBefore = [p \in Procs |-> EmptyBag]
    /\ repeat = [p \in Procs |-> FALSE]
    /\ staleAtStart = [p \in Procs |-> FALSE]
    /\ apiCalls = [p \in Procs |-> <<>>]

\* the storage layer at rest: no upsert call is under way
UpsertIdle ==
    /\ UpsertInit
    /\ staging = NoTable
    /\ projectId = TRUE

Init ==
    /\ UpsertInit
    /\ ConvIdle
    /\ FetchIdle
    /\ IngestIdle

\* serialized invocations: one caller issues call after call
Next ==
    \/ Invoke(1)
    \/ Ensure(1)
    \/ Truncate(1)
    \/ Load(1)
    \/ Merge(1)
    \/ Crash(1)

Spec == Init /\ [][Next]_vars

\* two invocations, one call each, overlapping freely
InvokeOnce(p) == pc[p] = "idle" /\ Invoke(p)

NextConc ==
    \E p \in Procs :
        \/ InvokeOnce(p)
        \/ Ensure(p)
        \/ Truncate(p)
        \/ Load(p)
        \/ Merge(p)

SpecConc == Init /\ [][NextConc]_vars

\* the converter on its own: call after call, each on any parsed response
InitConv ==
    /\ UpsertIdle
    /\ ConvIdle
    /\ FetchIdle
    /\ IngestIdle

NextConv == Convert

SpecConv == InitConv /\ [][NextConv]_vars

\* one fetch call, for any max_retries and with or without an app id
InitFetch ==
    /\ UpsertIdle
    /\ ConvIdle
    /\ fetchPc = "idle"
    /\ maxRetries \in 0..MaxRetriesArg
    /\ appId \in BOOLEAN
    /\ attempts = <<>>
    /\ sleeps = <<>>
    /\ lastException = NoException
    /\ fetchResult = FetchPending
    /\ IngestIdle

NextFetch ==
    \/ FetchCall
    \/ FetchAttempt

SpecFetch == InitFetch /\ [][NextFetch]_vars

\* one run of the /ingest handler, for any environment, any outcome of each
\* day's request and of each storage call
InitIngest ==
    /\ UpsertInit
    /\ ConvIdle
    /\ FetchIdle
    /\ oxrAppId \in BOOLEAN
    /\ inPc = "idle"
    /\ fetched = <<>>
    /\ allRecords = <<>>
    /\ inOps = <<>>
    /\ response = NoResponse

NextIngest ==
    \/ IngestStart
    \/ IngestDay
    \/ IngestClient
    \/ IngestEnsure
    \/ IngestEnsureCreateFails
    \/ IngestLoad
    \/ IngestMerge

SpecIngest == InitIngest /\ [][NextIngest]_vars

\* the handler runs to its end: a call made returns or raises, and the
\* statement after it is executed
SpecIngestLive == SpecIngest /\ WF_vars(NextIngest)

\* ================================================================ claims

LastOp(p) == ops[p][Len(ops[p])]

\* p's current call ran its MERGE to completion
Merged(p) ==
    /\ pc[p] = "returned"
    /\ Len(ops[p]) > 0
    /\ LastOp(p).stage = "merge"

RecordsUnder(b, k) == { i \in 1..Len(b) : Key(b[i]) = k }

BatchKeys(b) == { Key(b[i]) : i \in 1..Len(b) }

AllKeys == { Key(r) : r \in Rows }

\* C1: a call that repeats the preceding, successful call with the same batch
\* and succeeds too leaves the destination exactly as the first call left it
\* (the same rows with the same values, as often).
C1_Idempotent ==
    \A p \in Procs :
        (pc[p] = "returned" /\ repeat[p]) => mainTable = destBefore[p]

C1_Witness ==
    /\ Merged(1)
    /\ repeat[1]
    /\ \E k \in BatchKeys(batch[1]) : RowsUnder(mainTable, k) = 1
    /\ KeysOf(mainTable) # BatchKeys(batch[1])

\* C2: the destination never holds two rows with the same (date, currency),
\* whatever batches the calls were given.
C2_KeyUniqueness == UniqueKeys(mainTable)

\* C3: when the destination holds one row for a key and the batch holds
\* exactly one record for it, a successful call leaves exactly one row for
\* the key, and that row carries the rate and the timestamp of the record.
C3_UpdateSemantics ==
    \A p \in Procs : \A k \in AllKeys :
        ( /\ Merged(p)
          /\ RowsUnder(destBefore[p], k) = 1
          /\ Cardinality(RecordsUnder(batch[p], k)) = 1 )
        => /\ RowsUnder(mainTable, k) = 1
           /\ \A i \in RecordsUnder(batch[p], k) : BagIn(batch[p][i], mainTable)

C3_Witness ==
    /\ Merged(1)
    /\ \E k \in AllKeys :
        /\ RowsUnder(destBefore[1], k) = 1
        /\ Cardinality(RecordsUnder(batch[1], k)) = 1
        /\ \A i \in RecordsUnder(batch[1], k) : ~BagIn(batch[1][i], destBefore[1])
        /\ RowsUnder(mainTable, k) = 1

\* C4: a successful call leaves every row stored under a key the batch does
\* not name as it was, stores every key of the batch, and the set of keys of
\* the destination never shrinks during a call.
C4_FrameAndNoDelete ==
    \A p \in Procs :
        /\ pc[p] \notin {"idle", "crashed"} =>
              KeysOf(destBefore[p]) \subseteq KeysOf(mainTable)
        /\ Merged(p) =>
              /\ BatchKeys(batch[p]) \subseteq KeysOf(mainTable)
              /\ \A r \in BagToSet(destBefore[p]) \cup BagToSet(mainTable) :
                    Key(r) \notin BatchKeys(batch[p]) =>
                        CopiesIn(r, mainTable) = CopiesIn(r, destBefore[p])

C4_Witness ==
    /\ Merged(1)
    /\ \E r \in BagToSet(destBefore[1]) : Key(r) \notin BatchKeys(batch[1])
    /\ \E k \in BatchKeys(batch[1]) : k \notin KeysOf(destBefore[1])

\* C5: a call with an empty batch returns without raising and without making
\* any call to the storage layer, not even creating the client, also when
\* PROJECT_ID is not set; the destination is as before.
C5_EmptyBatchNoOp ==
    \A p \in Procs :
        (batch[p] = <<>> /\ pc[p] \notin {"idle", "crashed"})
        => /\ pc[p] = "returned"
           /\ ops[p] = <<>>
           /\ err[p] = "none"
           /\ mainTable = destBefore[p]

C5_Witness ==
    /\ pc[1] = "returned"
    /\ batch[1] = <<>>
    /\ ~projectId
    /\ ops[1] = <<>>

\* C6: when a call has raised, the destination is what it was when the call
\* started.
C6_NoPartialApplication ==
    \A p \in Procs : pc[p] = "raised" => mainTable = destBefore[p]

C6_Witness ==
    /\ pc[1] = "raised"
    /\ LastOp(1).stage = "merge"
    /\ staging.rows = BagOfSeq(batch[1])
    /\ mainTable # EmptyBag
    /\ ~MergeCardinalityError(mainTable, staging.rows)
    /\ MergeApply(mainTable, staging.rows) # mainTable

StageOrder == <<"client", "ensure", "truncate", "load", "merge">>

\* C7: the calls of one invocation are issued in the order client, ensure,
\* truncate, load, merge; a stage is issued only after all stages before it
\* succeeded; the invocation has raised exactly when its last stage failed,
\* and nothing is issued after a failed stage.
C7_StageOrder ==
    \A p \in Procs :
        /\ Len(ops[p]) <= Len(StageOrder)
        /\ \A i \in 1..Len(ops[p]) :
              /\ ops[p][i].stage = StageOrder[i]
              /\ i < Len(ops[p]) => ops[p][i].ok
        /\ pc[p] = "raised" <=> (Len(ops[p]) > 0 /\ ~LastOp(p).ok)
        /\ pc[p] = "raised" => err[p] # "none"
        /\ pc[p] \in InCall => pc[p] = StageOrder[Len(ops[p]) + 1]

C7_Witness ==
    /\ pc[1] = "raised"
    /\ Len(ops[1]) = 4
    /\ LastOp(1).stage = "load"
    /\ staleAtStart[1]

\* C8: with serialized invocations, the staging table holds exactly the rows
\* of the batch of the call when the call is about to run its merge, whatever
\* earlier calls left in it.
C8_StagingIsOwnBatch ==
    \A p \in Procs : pc[p] = "merge" => staging.rows = BagOfSeq(batch[p])

C8_Witness ==
    /\ pc[1] = "merge"
    /\ staleAtStart[1]
    /\ mainTable = EmptyBag

\* C9 as stated: the error a call raises after a failed storage stage is the
\* error type of that stage.
C9_StageIdentifyingErrors ==
    \A p \in Procs :
        (pc[p] = "raised" /\ LastOp(p).stage # "client")
        => err[p] = StageError(LastOp(p).stage)

\* C9 as amended: the error a call raises is the error of the failed call
\* itself, unchanged; it is not an error type that names the stage.
C9_ErrorIsCause ==
    \A p \in Procs :
        pc[p] = "raised"
        => /\ err[p] = LastOp(p).cause
           /\ LastOp(p).stage # "client" =>
                 err[p] \notin { StageError(st) : st \in InCall }

\* two invocations failed at different stages with the same error
C9_Witness ==
    /\ pc[1] = "raised"
    /\ pc[2] = "raised"
    /\ LastOp(1).stage = "truncate"
    /\ LastOp(2).stage = "merge"
    /\ err[1] = err[2]

\* C10: nothing holds an invocation back while another one is between its
\* load and its merge: its truncate or load can run at once.
C10_NoMutualExclusion ==
    \A p \in Procs : \A q \in Procs \ {p} :
        /\ (pc[p] = "merge" /\ pc[q] = "truncate") => ENABLED Truncate(q)
        /\ (pc[p] = "merge" /\ pc[q] = "load") => ENABLED Load(q)

\* invocation 1 merged alone so far into the empty destination, and what it
\* merged was not its batch: the other invocation truncated or loaded the
\* staging table after 1's load
C10_Witness ==
    /\ Merged(1)
    /\ pc[2] \in {"load", "merge"}
    /\ destBefore[1] = EmptyBag
    /\ mainTable # MergeApply(EmptyBag, BagOfSeq(batch[1]))


(***************************************************************************)
(* Claims about convert_usd_to_eur_base, checked under SpecConv.           *)
(***************************************************************************)
Called == convResult.status # "none"

\* a finite number greater than zero
PositiveFinite(x) == x.t = "num" /\ x.v > 0

\* the response has a rates object whose EUR entry is a positive finite number
ValidEur(d) == InputCase(d) = "has_eur" /\ PositiveFinite(d.rates["EUR"])

\* C11: whenever the rates object holds an EUR entry that is a number greater
\* than zero, the call returns a mapping that contains EUR with the value
\* exactly 1.0.
C11_EurPivot ==
    (Called /\ ValidEur(oxrData)) =>
        /\ convResult.status = "returned"
        /\ "EUR" \in DOMAIN convResult.rates
        /\ convResult.rates["EUR"] = One

C11_Witness ==
    /\ convResult.status = "returned"
    /\ ValidEur(oxrData)
    /\ oxrData.rates["EUR"] = Num(92)
    /\ "USD" \in DOMAIN convResult.rates
    /\ convResult.rates["EUR"] = One

\* C12: whenever the EUR entry is present but is not a strictly positive finite
\* number (zero, negative, NaN, infinite), the call raises and returns no
\* mapping.
C12_InvalidBaseFatal ==
    (Called /\ InputCase(oxrData) = "has_eur"
            /\ ~PositiveFinite(oxrData.rates["EUR"])) =>
        convResult.status = "raised"

\* C13: a response without a rates key raises KeyError, rates that is not a
\* dictionary raises TypeError, an empty rates object raises ValueError, a
\* rates object without EUR raises ValueError; none of them yields a mapping.
C13_StructuralFailures ==
    Called =>
        /\ InputCase(oxrData) = "no_rates_key" =>
               convResult.status = "raised" /\ convResult.kind = "KeyError"
        /\ InputCase(oxrData) = "rates_not_dict" =>
               convResult.status = "raised" /\ convResult.kind = "TypeError"
        /\ InputCase(oxrData) = "empty_rates" =>
               convResult.status = "raised" /\ convResult.kind = "ValueError"
        /\ InputCase(oxrData) = "missing_eur" =>
               convResult.status = "raised" /\ convResult.kind = "ValueError"
        /\ convResult.status = "raised" => convResult.rates = <<>>

C13_Witness ==
    /\ InputCase(oxrData) = "empty_rates"
    /\ convResult.status = "raised"
    /\ convPrev.case = "missing_eur"
    /\ convPrev.status = "raised"

\* the three value-level failures: empty rates, no EUR entry, EUR not positive
FailureLabel(case, nonPositive) ==
    IF nonPositive THEN "nonpositive_eur"
    ELSE IF case \in {"empty_rates", "missing_eur"} THEN case
    ELSE "other"

CurLabel == FailureLabel(InputCase(oxrData), NonPositiveEur(oxrData))

PrevLabel == FailureLabel(convPrev.case, convPrev.nonPositive)

\* C14 as stated: two calls that fail for two different reasons among empty
\* rates, missing EUR and non-positive EUR raise errors of different kinds.
C14_DistinctErrorKinds ==
    (/\ Called /\ convPrev.status # "none"
     /\ CurLabel # "other" /\ PrevLabel # "other"
     /\ CurLabel # PrevLabel) =>
        /\ convResult.status = "raised"
        /\ convPrev.status = "raised"
        /\ convResult.kind # convPrev.kind

\* C14 amended: empty rates, missing EUR and non-positive EUR all raise the
\* one kind ValueError; empty rates and missing EUR carry the same message,
\* and only the non-positive EUR is told apart, by its message.
C14_OneErrorKind ==
    /\ (Called /\ CurLabel # "other") =>
        /\ convResult.status = "raised"
        /\ convResult.kind = "ValueError"
        /\ (convResult.msg = EurNotFound) <=> (CurLabel # "nonpositive_eur")
    /\ (Called /\ CurLabel # "other" /\ PrevLabel # "other") =>
        convResult.kind = convPrev.kind

C14_Witness ==
    /\ PrevLabel = "empty_rates"
    /\ CurLabel = "nonpositive_eur"
    /\ convResult.status = "raised"
    /\ convPrev.status = "raised"
    /\ convResult.kind = convPrev.kind

\* C15: with a valid EUR entry, every other entry whose value is None, not a
\* number, NaN, infinite, zero or negative is absent from the result, the
\* call does not raise, and every other valid entry is present.
C15_SkipInvalidEntries ==
    (Called /\ ValidEur(oxrData)) =>
        /\ convResult.status = "returned"
        /\ \A c \in DOMAIN oxrData.rates \ {"EUR"} :
               (c \in DOMAIN convResult.rates)
                   <=> PositiveFinite(oxrData.rates[c])

C15_Witness ==
    /\ Called /\ ValidEur(oxrData)
    /\ "USD" \in DOMAIN oxrData.rates
    /\ oxrData.rates["USD"] = Num(0)
    /\ "USD" \notin DOMAIN convResult.rates
    /\ "GBP" \in DOMAIN convResult.rates

\* C16: with a valid EUR rate k, the keys of the result are exactly the input
\* codes whose value is a positive finite number, EUR included, and every
\* value other than EUR's is the input value divided by k.
C16_ExactAndComplete ==
    (Called /\ ValidEur(oxrData)) =>
        /\ convResult.status = "returned"
        /\ DOMAIN convResult.rates =
               {c \in DOMAIN oxrData.rates : PositiveFinite(oxrData.rates[c])}
        /\ \A c \in DOMAIN convResult.rates \ {"EUR"} :
               /\ convResult.rates[c].t = "num"
               /\ convResult.rates[c].num * oxrData.rates["EUR"].v
                      = oxrData.rates[c].v * convResult.rates[c].den

C16_Witness ==
    /\ Called /\ ValidEur(oxrData)
    /\ oxrData.rates["EUR"] = Num(92)
    /\ DOMAIN convResult.rates = {"EUR", "USD", "GBP"}
    /\ oxrData.rates["USD"] = Num(100)
    /\ convResult.rates["USD"].num = 25
    /\ convResult.rates["USD"].den = 23


(***************************************************************************)
(* Claims about fetch_historical_rates, checked under SpecFetch.           *)
(***************************************************************************)
FetchOver == fetchPc \in {"returned", "raised"}

\* a 5xx response, a timeout or a connection error
Retryable(o) ==
    \/ o.kind \in {"timeout", "connection"}
    \/ o.kind = "http_error" /\ o.status >= 500

\* C17: with max_retries >= 1 and every attempt failing with a 5xx response,
\* a timeout or a connection error, the call makes exactly max_retries
\* requests and then raises the error of the last attempt; it never makes
\* more.
C17_BoundedRetries ==
    (maxRetries >= 1 /\ \A i \in 1..Len(attempts) : Retryable(attempts[i])) =>
        /\ Len(attempts) <= maxRetries
        /\ FetchOver /\ appId =>
            /\ Len(attempts) = maxRetries
            /\ fetchResult =
                   FetchRaised(ExceptionOf(attempts[maxRetries], maxRetries))

C17_Witness ==
    /\ fetchPc = "raised"
    /\ maxRetries = DefaultMaxRetries
    /\ Len(attempts) = maxRetries
    /\ attempts[1].status = 500
    /\ attempts[2].kind = "connection"
    /\ attempts[3].kind = "timeout"
    /\ fetchResult.exc.type = "Timeout"

\* C18: an attempt answered with a status in 400..499 makes the call raise
\* that HTTP error at once: it is the last request and no sleep follows it.
C18_ClientErrorsImmediate ==
    \A i \in 1..Len(attempts) :
        (attempts[i].kind = "http_error"
            /\ attempts[i].status \in 400..499) =>
            /\ i = Len(attempts)
            /\ fetchResult =
                   FetchRaised(Exception("HTTPError", i, attempts[i].status))
            /\ fetchPc = "raised"
            /\ Len(sleeps) = i - 1

C18_Witness ==
    /\ maxRetries = DefaultMaxRetries
    /\ Len(attempts) = 2
    /\ attempts[1].status = 503
    /\ attempts[2].status = 404
    /\ fetchPc = "raised"
    /\ sleeps = <<2>>

\* C19 as stated: with max_retries > 1, a first attempt answered with 429 is
\* followed by another attempt.
C19_RateLimitRetried ==
    (FetchOver /\ maxRetries > 1 /\ Len(attempts) >= 1
        /\ attempts[1].status = 429) =>
        Len(attempts) >= 2

\* C19 amended: a 429 is treated like every other 4xx: whatever max_retries
\* is, the attempt answered with 429 is the last one, no sleep follows it and
\* the call raises its HTTP error.
C19_RateLimitNotRetried ==
    \A i \in 1..Len(attempts) :
        attempts[i].status = 429 =>
            /\ Len(attempts) = i
            /\ Len(sleeps) = i - 1
            /\ fetchPc = "raised"
            /\ fetchResult.exc = Exception("HTTPError", i, 429)

C19_Witness ==
    /\ maxRetries = DefaultMaxRetries
    /\ Len(attempts) = 1
    /\ attempts[1].status = 429
    /\ fetchPc = "raised"
    /\ sleeps = <<>>

\* C20: a call that is over has either returned the parsed body of a
\* successful response, its last request, or raised an error; for no
\* max_retries and no sequence of outcomes does it return without a
\* successful response.
C20_NeverSilent ==
    /\ fetchPc \in {"idle", "loop", "returned", "raised"}
    /\ fetchPc = "loop" => Len(attempts) < maxRetries
    /\ fetchPc = "returned" =>
        /\ Len(attempts) >= 1
        /\ attempts[Len(attempts)].kind = "ok"
        /\ fetchResult = FetchReturned(attempts[Len(attempts)].body)
        /\ fetchResult.body \in Bodies
    /\ fetchPc = "raised" =>
        /\ fetchResult.status = "raised"
        /\ fetchResult.exc # NoException
    /\ (FetchOver /\ \A i \in 1..Len(attempts) : attempts[i].kind # "ok") =>
        fetchPc = "raised"

C20_Witness ==
    /\ appId
    /\ maxRetries = 0
    /\ fetchPc = "raised"
    /\ attempts = <<>>
    /\ fetchResult.exc.type = "TypeError"


(***************************************************************************)
(* Further claims about bq.ensure_staging_table (under Spec) and about     *)
(* oxr.fetch_historical_rates (under SpecFetch).                           *)
(***************************************************************************)
\* the timestamp column types ensure_staging_table accepts as they are
AcceptedTsTypes == {"TIMESTAMP", "INTEGER"}

\* C27 as stated: a staging table that exists is left exactly as it is by
\* ensure_staging_table, whatever its schema.
C27_ExistingTableUntouched ==
    [][(Ensure(1) /\ staging.exists) => staging' = staging]_vars

\* C27 amended: a staging table that exists and whose timestamp column is
\* TIMESTAMP or INTEGER is left exactly as it is (schema and rows), so a
\* second call in a row creates nothing.  A table with another timestamp
\* type may be dropped and created anew, empty and with the fixed schema; it
\* is gone only when the call raises.
C27_AcceptedTableUntouched ==
    [][Ensure(1) =>
         /\ (staging.exists /\ staging.tsType \in AcceptedTsTypes) =>
                staging' = staging
         /\ (staging.exists /\ staging.tsType \notin AcceptedTsTypes) =>
                /\ staging' \in {staging, NewStagingTable, NoTable}
                /\ staging' = NoTable => pc'[1] = "raised"]_vars

C27_Witness ==
    /\ pc[1] = "truncate"
    /\ staleAtStart[1]
    /\ staging.tsType \in AcceptedTsTypes
    /\ staging.rows # EmptyBag

\* C29: the i-th sleep lasts 2^i seconds and follows the failed retryable
\* attempt i, with i < max_retries; there is no sleep after the last attempt,
\* after a success or after a 4xx, so max_retries failed attempts come with
\* exactly max_retries - 1 sleeps.
C29_BackoffSchedule ==
    /\ \A i \in 1..Len(sleeps) :
        /\ sleeps[i] = 2 ^ i
        /\ i < maxRetries
        /\ i <= Len(attempts) /\ Retryable(attempts[i])
    /\ Len(sleeps) =
           Cardinality({ i \in 1..Len(attempts) :
                           Retryable(attempts[i]) /\ i < maxRetries })
    /\ (fetchPc = "raised" /\ Len(attempts) >= 1
            /\ Retryable(attempts[Len(attempts)])) =>
           Len(sleeps) = maxRetries - 1

C29_Witness ==
    /\ fetchPc = "raised"
    /\ maxRetries = DefaultMaxRetries
    /\ Len(attempts) = maxRetries
    /\ sleeps = <<2, 4>>

\* C30: a successful attempt k is the last request, k <= max_retries, and the
\* call returns the parsed body of attempt k, whatever errors came before.
C30_SuccessEndsLoop ==
    \A k \in 1..Len(attempts) :
        attempts[k].kind = "ok" =>
            /\ k = Len(attempts)
            /\ k <= maxRetries
            /\ fetchPc = "returned"
            /\ fetchResult = [status |-> "returned",
                              body |-> attempts[k].body,
                              exc |-> NoException]

C30_Witness ==
    /\ Len(attempts) = 3
    /\ attempts[1].status = 500
    /\ attempts[2].kind = "timeout"
    /\ attempts[3].kind = "ok"
    /\ fetchPc = "returned"
    /\ fetchResult.body = attempts[3].body
    /\ sleeps = <<2, 4>>


(***************************************************************************)
(* Claims about the /ingest handler and transform_to_eur_base, checked     *)
(* under SpecIngest.                                                       *)
(***************************************************************************)
\* the request of day i (1-based) returned a body
DayOk(i) == fetched[i].kind = "ok"

\* the run ended inside the window loop, on an exception of that day's work
InLoopAbort ==
    inPc = "done" /\ response.code = 500 /\ inOps = <<>> /\ fetched # <<>>

\* the exception came from the work on day i
AbortedOn(i) == InLoopAbort /\ Len(fetched) = i

LoopCompleted == Len(fetched) = LookbackDays /\ ~InLoopAbort

\* the accumulated records that carry date d
RecordsOn(d) == SelectSeq(allRecords, LAMBDA r : r.date = d)

RatesOf(b) == IF b.hasRates THEN b.rates ELSE <<>>

Tracked == { TrackedCurrencies[i] : i \in 1..Len(TrackedCurrencies) }

\* C21: a day whose fetch fails contributes no record and does not end the
\* run: the loop goes on; every accumulated record belongs to a day whose
\* fetch succeeded, at the end of the loop the batch holds exactly the
\* records of those days, and a non-empty batch goes on to the load and the
\* merge, which write it.
C21_WindowPartialFailure ==
    /\ \A i \in 1..Len(fetched) :
        ~DayOk(i) =>
            /\ RecordsOn(DateOf(i - 1)) = <<>>
            /\ ~AbortedOn(i)
            /\ i < LookbackDays => (inPc = "fetch" \/ Len(fetched) > i)
    /\ \A j \in 1..Len(allRecords) :
        \E i \in 1..Len(fetched) :
            DayOk(i) /\ allRecords[j].date = DateOf(i - 1)
    /\ LoopCompleted =>
        \A i \in 1..Len(fetched) :
            DayOk(i) =>
                RecordsOn(DateOf(i - 1)) =
                    TransformToEurBase(fetched[i].body, DateOf(i - 1)).records
    /\ (LoopCompleted /\ allRecords # <<>>) =>
        /\ inPc \in {"client", "ensure", "load", "merge", "done"}
        /\ response.code # 400
    /\ (inPc = "done" /\ response.code = 200) =>
        /\ [call |-> "load", ok |-> TRUE] = inOps[Len(inOps) - 1]
        /\ [call |-> "merge", ok |-> TRUE] = inOps[Len(inOps)]
        /\ staging.rows = BagOfSeq(allRecords)
        /\ \A j \in 1..Len(allRecords) : BagIn(allRecords[j], mainTable)

C21_Witness ==
    /\ inPc = "done"
    /\ response.code = 200
    /\ ~DayOk(1)
    /\ DayOk(2)
    /\ Len(allRecords) = 4
    /\ mainTable = BagOfSeq(allRecords)

\* a body with a valid EUR rate in which a tracked currency has a null or
\* non-numeric rate
HasBadTrackedRate(b) ==
    /\ b.hasRates /\ b.isDict
    /\ "EUR" \in DOMAIN b.rates
    /\ PositiveFinite(b.rates["EUR"])
    /\ \E c \in Tracked \cap DOMAIN b.rates : ~IsNumber(b.rates[c])

\* C22: a null or non-numeric rate of a tracked currency, next to a valid EUR
\* rate, never ends the run with an exception.
C22_BadRateNeverAborts ==
    \A i \in 1..Len(fetched) :
        (DayOk(i) /\ HasBadTrackedRate(fetched[i].body)) => ~AbortedOn(i)

\* a float that is finite and greater than zero
PositiveFloat(a) == a.t = "num" /\ a.num > 0

\* C23: every record accumulated, loaded into staging or merged into the
\* destination has a rate_to_eur that is strictly positive and finite.
C23_RatesPositiveFinite ==
    /\ \A j \in 1..Len(allRecords) : PositiveFloat(allRecords[j].rate_to_eur)
    /\ \A r \in BagToSet(staging.rows) : PositiveFloat(r.rate_to_eur)
    /\ \A r \in BagToSet(mainTable) : PositiveFloat(r.rate_to_eur)

\* C24 as stated: a run that wrote records but skipped a day does not report
\* the status of a run that skipped none ("success").
C24_PartialSuccessReported ==
    (inPc = "done" /\ response.code = 200
        /\ \E i \in 1..Len(fetched) : ~DayOk(i)) =>
        response.status # "success"

\* C24 amended: a run ends with one of two statuses: 'success' (200, exactly
\* when the merge succeeded) or 'error' (400 or 500); the success response is
\* a function of the number of records alone, so it names no failed date and
\* is the same whether or not a day was skipped.
C24_TwoOutcomes ==
    inPc = "done" =>
        /\ response.status \in {"success", "error"}
        /\ (response.code = 200) <=> (response.status = "success")
        /\ response.status = "success" =>
            /\ response = [code |-> 200, status |-> "success",
                           records |-> Len(allRecords), message |-> ""]
            /\ inOps[Len(inOps)] = [call |-> "merge", ok |-> TRUE]
        /\ response.status = "error" =>
            response.code \in {400, 500} /\ response.records = 0

C24_Witness ==
    /\ inPc = "done"
    /\ response.code = 200
    /\ response.status = "success"
    /\ ~DayOk(1)
    /\ DayOk(2)

\* C25: when the window yields no record, the run answers 400 with status
\* 'error' and makes no storage call; both tables stay as they were.
C25_NoRecordsNoWrite ==
    /\ (LoopCompleted /\ allRecords = <<>>) =>
        /\ inPc = "done"
        /\ response.code = 400
        /\ response.status = "error"
        /\ inOps = <<>>
        /\ staging.rows = EmptyBag
        /\ mainTable = EmptyBag
    /\ response.code = 400 => (allRecords = <<>> /\ inOps = <<>>)

C25_Witness ==
    /\ inPc = "done"
    /\ response.code = 400
    /\ Len(fetched) = LookbackDays
    /\ ~DayOk(1)
    /\ DayOk(LookbackDays)
    /\ "EUR" \notin DOMAIN RatesOf(fetched[LookbackDays].body)

\* C26: when PROJECT_ID or OXR_APP_ID is unset, the run answers 500 with
\* status 'error' and makes no fetch and no storage call.
C26_MissingConfiguration ==
    (inPc # "idle" /\ (~projectId \/ ~oxrAppId)) =>
        /\ inPc = "done"
        /\ response.code = 500
        /\ response.status = "error"
        /\ fetched = <<>>
        /\ inOps = <<>>
        /\ mainTable = EmptyBag

C26_Witness ==
    /\ inPc = "done"
    /\ projectId
    /\ ~oxrAppId
    /\ response.code = 500

\* C28: the records of one day hold at most one record per tracked currency,
\* only for tracked currencies present in the body's rates, each with the
\* day's date and the body's timestamp; a body without an EUR rate gives no
\* record and no exception.
C28_RecordsPerDay ==
    \A i \in 1..Len(fetched) :
        LET b == fetched[i].body
            recs == RecordsOn(DateOf(i - 1))
        IN  /\ (DayOk(i) /\ ~AbortedOn(i)) =>
                /\ \A j, k \in 1..Len(recs) :
                       recs[j].currency = recs[k].currency => j = k
                /\ \A j \in 1..Len(recs) :
                    /\ recs[j].currency \in Tracked \cap DOMAIN RatesOf(b)
                    /\ b.timestamp # 0 =>
                           recs[j].timestamp =
                               [utc |-> b.timestamp, clock |-> FALSE]
                /\ "EUR" \notin DOMAIN RatesOf(b) => recs = <<>>
            /\ (DayOk(i) /\ (b.isDict \/ ~b.hasRates)
                    /\ "EUR" \notin DOMAIN RatesOf(b)) => ~AbortedOn(i)

C28_Witness ==
    /\ Len(fetched) = 2
    /\ DayOk(1) /\ DayOk(2)
    /\ fetched[1].body.timestamp = 20
    /\ Len(RecordsOn(DateOf(0))) = 1
    /\ RecordsOn(DateOf(0))[1].currency = "USD"
    /\ RecordsOn(DateOf(0))[1].timestamp.utc = 20
    /\ "EUR" \notin DOMAIN RatesOf(fetched[2].body)
    /\ fetched[2].body.isDict
    /\ inPc = "client"


(***************************************************************************)
(* Claims about the coordinator's retry policy, the staging schema and the *)
(* project id (Spec).                                                      *)
(***************************************************************************)

\* the stages of p's current call with the given name
Issued(p, stage) == { i \in 1..Len(ops[p]) : ops[p][i].stage = stage }

\* the calls of p's ensure_staging_table that create the table
CreationCalls(p) ==
    { i \in 1..Len(apiCalls[p]) : apiCalls[p][i].call \in {"create", "fallback"} }

\* no stage of the try block is issued twice, and a failed stage is the last
NoStageRetry(p) ==
    /\ \A stage \in InCall : Cardinality(Issued(p, stage)) <= 1
    /\ \A i \in 1..Len(ops[p]) : ~ops[p][i].ok => i = Len(ops[p])

\* C32: within one upsert_exchange_rates call each of truncate, load and
\* merge is issued at most once and a failed stage is never attempted again,
\* table creation included: a create_table that failed is followed by no
\* further attempt to create the table.
C32_NoInternalRetry ==
    \A p \in Procs :
        /\ NoStageRetry(p)
        /\ \A i, j \in CreationCalls(p) :
               (i < j) => apiCalls[p][i].ok

\* C32 amended: ensure_staging_table, truncate, load and merge are each
\* issued at most once per call and a failed one ends the call; inside
\* ensure_staging_table get_table, delete_table and create_table are called
\* at most once each, but the first of them to fail is followed by one
\* create_table(exists_ok=True), which is a second attempt to create the
\* table when it was create_table that failed.
C32_NoStageRetry ==
    \A p \in Procs :
        /\ NoStageRetry(p)
        /\ \A i, j \in 1..Len(apiCalls[p]) :
               apiCalls[p][i].call = apiCalls[p][j].call => i = j
        /\ \A i \in 1..Len(apiCalls[p]) :
               LET c == apiCalls[p][i]
               IN  /\ (c.call = "fallback") =>
                        /\ i = Len(apiCalls[p])
                        /\ i > 1 /\ ~apiCalls[p][i - 1].ok
                   /\ (~c.ok /\ c.call # "fallback") =>
                        /\ i + 1 = Len(apiCalls[p])
                        /\ apiCalls[p][i + 1].call = "fallback"

C32_Witness ==
    /\ pc[1] = "raised"
    /\ Len(ops[1]) = 4
    /\ ops[1][2].stage = "ensure" /\ ops[1][2].ok
    /\ ops[1][4].stage = "load" /\ ~ops[1][4].ok
    /\ Len(apiCalls[1]) = 4
    /\ apiCalls[1][3] = [call |-> "create", ok |-> FALSE]
    /\ apiCalls[1][4] = [call |-> "fallback", ok |-> TRUE]

\* C34: a staging table that ensure_staging_table creates where there was
\* none has the four columns date DATE, currency STRING, rate_to_eur FLOAT
\* and timestamp INTEGER.
C34_NewStagingSchema ==
    [][(Ensure(1) /\ ~staging.exists /\ staging'.exists) =>
          SchemaOf(staging') =
              [date |-> "DATE", currency |-> "STRING", rate_to_eur |-> "FLOAT",
               timestamp |-> "INTEGER"]]_vars

\* C35: a call with a non-empty batch and no PROJECT_ID raises the ValueError
\* of get_client; ensure, truncate, load and merge are not issued and the
\* tables are as they were.
C35_MissingProjectId ==
    \A p \in Procs :
        (~projectId /\ batch[p] # <<>> /\ pc[p] \notin {"idle", "crashed"}) =>
            /\ pc[p] = "raised"
            /\ err[p] = "ValueError"
            /\ ops[p] = <<[stage |-> "client", ok |-> FALSE,
                           cause |-> "ValueError"]>>
            /\ apiCalls[p] = <<>>
            /\ mainTable = destBefore[p]

C35_Witness ==
    /\ ~projectId
    /\ pc[1] = "raised"
    /\ Len(batch[1]) = 2
    /\ staging = LegacyStagingTable

\* C39: whenever ensure_staging_table has returned normally, the staging
\* table exists and its timestamp column is TIMESTAMP or INTEGER, on the
\* fallback paths too.
C39_ProvisioningPostcondition ==
    (pc[1] = "truncate") =>
        /\ staging.exists
        /\ staging.tsType \in AcceptedTsTypes

(***************************************************************************)
(* Claims about the app id and about errors that are no request errors     *)
(* (SpecFetch).                                                            *)
(***************************************************************************)

\* C36: without an app id (none passed, OXR_APP_ID unset or empty) the call
\* raises ValueError and makes no HTTP request and no sleep.
C36_MissingAppId ==
    ~appId =>
        /\ attempts = <<>>
        /\ sleeps = <<>>
        /\ fetchPc \in {"idle", "raised"}
        /\ fetchPc = "raised" =>
               fetchResult = FetchRaised(Exception("ValueError", 0, 0))

C36_Witness ==
    /\ ~appId
    /\ fetchPc = "raised"
    /\ maxRetries = DefaultMaxRetries

InCalls(call) == { j \in 1..Len(inOps) : inOps[j].call = call }

\* C31: no storage call is made before the last fetch of the window; the
\* batch is loaded at most once and merged at most once, a merge comes right
\* after the load that succeeded, a successful run made exactly one load of
\* the whole batch and then one merge, and a failed load ends the run with
\* 500 and no merge.
C31_OnePassAfterFetches ==
    /\ inOps # <<>> => Len(fetched) = LookbackDays
    /\ Cardinality(InCalls("load")) <= 1
    /\ Cardinality(InCalls("merge")) <= 1
    /\ \A j \in InCalls("merge") :
           j > 1 /\ inOps[j - 1] = [call |-> "load", ok |-> TRUE]
    /\ (inPc = "done" /\ response.code = 200) =>
        /\ Cardinality(InCalls("load")) = 1
        /\ Cardinality(InCalls("merge")) = 1
        /\ inOps[Len(inOps)] = [call |-> "merge", ok |-> TRUE]
        /\ staging.rows = BagOfSeq(allRecords)
    /\ \A j \in InCalls("load") :
           ~inOps[j].ok =>
               /\ j = Len(inOps)
               /\ inPc = "done"
               /\ response = PipelineError("load")

C31_Witness ==
    /\ inPc = "done"
    /\ response.code = 500
    /\ Len(inOps) = 3
    /\ inOps[3] = [call |-> "load", ok |-> FALSE]
    /\ Len(allRecords) = 5

\* C33: main.fetch_historical_rates makes one request per call and never a
\* retry or a sleep; when the request fails (connection error, HTTP error
\* status) it returns None without raising, so the day adds nothing and the
\* run is not ended by an exception; otherwise it returns the parsed body,
\* which is what the transform of the day gets.
C33_FetchSwallowsFailures ==
    [][IngestDay =>
         LET i == Len(fetched)
             o == fetched'[i + 1]
             t == TransformToEurBase(o.body, DateOf(i))
         IN  /\ Len(fetched') = i + 1
             /\ attempts' = <<>> /\ sleeps' = <<>>
             /\ (o.kind # "ok") =>
                    /\ allRecords' = allRecords
                    /\ response'.code # 500
             /\ (o.kind = "ok") =>
                    IF t.status = "raised"
                    THEN response' = PipelineError(t.kind)
                    ELSE allRecords' = allRecords \o t.records]_vars

C33_Witness ==
    /\ Len(fetched) = 2
    /\ fetched[1].kind = "connection"
    /\ fetched[2].kind = "http_error" /\ fetched[2].status = 503
    /\ inPc = "done"
    /\ response.code = 400

\* C38: whatever the fetches and the storage calls come to, the run makes at
\* most LOOKBACK_DAYS fetches and ends with one response, which is 200
\* 'success', 400 'error' or 500 'error'; no exception leaves the handler;
\* a 200 is returned only after a load and a merge that both succeeded.
C38_AlwaysResponds ==
    /\ <>(inPc = "done")
    /\ [](/\ Len(fetched) <= LookbackDays
          /\ inPc \in {"idle", "fetch", "client", "ensure", "load", "merge",
                        "done"}
          /\ inPc # "done" => response = NoResponse
          /\ inPc = "done" =>
                /\ \/ response.code = 200 /\ response.status = "success"
                   \/ /\ response.code = 400 /\ response.status = "error"
                      /\ allRecords = <<>>
                   \/ response.code = 500 /\ response.status = "error"
                /\ response.code = 200 =>
                      /\ \E j \in InCalls("load") : inOps[j].ok
                      /\ \E j \in InCalls("merge") : inOps[j].ok)

C38_Witness ==
    /\ inPc = "done"
    /\ response = PipelineError("create_table")
    /\ Len(fetched) = LookbackDays
    /\ fetched[1].kind = "timeout"

\* C40: the window loop asks for LOOKBACK_DAYS pairwise distinct dates, each
\* once, and a day gives at most one record per tracked currency, so no two
\* records of the accumulated batch have the same (date, currency).
C40_BatchKeysUnique ==
    /\ \A i, j \in 0..(LookbackDays - 1) : DateOf(i) = DateOf(j) => i = j
    /\ Len(fetched) <= LookbackDays
    /\ \A j \in 1..Len(allRecords) :
           \E i \in 1..Len(fetched) : allRecords[j].date = DateOf(i - 1)
    /\ \A j, k \in 1..Len(allRecords) :
           Key(allRecords[j]) = Key(allRecords[k]) => j = k

C40_Witness ==
    /\ Len(fetched) = 2
    /\ Len(allRecords) = 8
    /\ allRecords[1].currency = allRecords[5].currency
    /\ allRecords[1].date # allRecords[5].date

====
